---- MODULE Spec2Model ----
(***************************************************************************)
(* Model of utils/languages.py: the script that seeds a languages dict     *)
(* from the first usable locale registry (icu, babel), merges the          *)
(* persisted data/languages.dat and the PO-file headers into it with       *)
(* dict.update, and writes the result back as JSON.                        *)
(*                                                                         *)
(* A display name is a sequence of one-character strings; None is the      *)
(* one-element sequence <<"None">>, which no character sequence equals.    *)
(* A Python languages dict is a function from locale codes to entries      *)
(* [shape, english, native] with shape "tuple", "list" or "dict"; the      *)
(* JSON text of the data file is a function from codes to JSON values      *)
(* [kind, english, native] with kind "array" or "object" (sort_keys makes  *)
(* the key order canonical, so the object is kept as a function).          *)
(***************************************************************************)
EXTENDS Naturals, Sequences, FiniteSets, TLC

VARIABLES
    avail,        \* source -> whether its module can be imported
    table,        \* source -> listed code -> raw <<english, native>>
    catalogs,     \* code with a messages_<code>.po -> its metadata fields
    file,         \* contents of data/languages.dat
    run,          \* the number of the current invocation of the script
    pc,           \* position of the current invocation
    srcIdx,       \* index of the for loop over sources[:-1]
    languages,    \* main's local dict
    stderr,       \* whether "Could not save languages data file" was written
    stdout,       \* what was printed: "", "summary" or "exception"
    exitStatus,   \* the process's exit status once pc = "exited"
    consulted,    \* history: the sources getLanguages was called with
    seed,         \* history: languages when the seeding loop ended
    loaded,       \* history: what loadLanguagesData returned (<< >> if it raised)
    trans,        \* history: what getLanguages(source='pofiles') returned
    fileAtStart,  \* history: the data file when this invocation began
    outcome,      \* history: "running", "saved", "write_failed", "exception"
    failedAt,     \* history: "none", or the point of saveLanguagesData that raised
    prev          \* history: outcome, file and saved dict of the previous invocation

vars == <<avail, table, catalogs, file, run, pc, srcIdx, languages, stderr,
          stdout, exitStatus, consulted, seed, loaded, trans, fileAtStart,
          outcome, failedAt, prev>>

inputs == <<avail, table, catalogs>>

-----------------------------------------------------------------------------
(* Bounds *)

MaxRuns == 2

-----------------------------------------------------------------------------
(* Characters and names *)

LowerChars == <<"a", "c", "e", "f", "g", "h", "i", "l", "n", "r", "s", "u", "ç">>
UpperChars == <<"A", "C", "E", "F", "G", "H", "I", "L", "N", "R", "S", "U", "Ç">>

Range(s) == {s[i] : i \in 1..Len(s)}

IsLower(ch) == ch \in Range(LowerChars)
IsUpper(ch) == ch \in Range(UpperChars)
IsCased(ch) == IsLower(ch) \/ IsUpper(ch)

IndexIn(s, ch) == CHOOSE i \in 1..Len(s) : s[i] = ch

ToUpper(ch) == IF IsLower(ch) THEN UpperChars[IndexIn(LowerChars, ch)] ELSE ch
ToLower(ch) == IF IsUpper(ch) THEN LowerChars[IndexIn(UpperChars, ch)] ELSE ch

None == <<"None">>
EmptyStr == << >>

\* Python truth value of a name: None and '' are false.
Truthy(name) == name # None /\ name # EmptyStr

\* unicode.title(): a cased character is upper-cased when the character
\* before it is uncased (or there is none) and lower-cased otherwise.
RECURSIVE TitleFrom(_, _, _)
TitleFrom(s, i, prevCased) ==
    IF i > Len(s) THEN << >>
    ELSE <<(IF prevCased THEN ToLower(s[i]) ELSE ToUpper(s[i]))>>
         \o TitleFrom(s, i + 1, IsCased(s[i]))

Title(s) == TitleFrom(s, 1, FALSE)

n_English   == <<"E", "n", "g", "l", "i", "s", "h">>
n_english   == <<"e", "n", "g", "l", "i", "s", "h">>
n_englishUs == <<"e", "n", "g", "l", "i", "s", "h", " ", "(", "u", "s", ")">>
n_French    == <<"F", "r", "e", "n", "c", "h">>
n_francais  == <<"f", "r", "a", "n", "ç", "a", "i", "s">>
n_Francais  == <<"F", "r", "a", "n", "ç", "a", "i", "s">>
n_FRANCAIS  == <<"F", "R", "A", "N", "Ç", "A", "I", "S">>

-----------------------------------------------------------------------------
(* Sources and locale codes *)

Sources == <<"icu", "babel", "pofiles">>

\* sources[:-1]
RegistrySources == SubSeq(Sources, 1, Len(Sources) - 1)

Codes == {"en", "fr"}

Empty == [k \in {} |-> None]

\* dict.update
MergeKeepOld(a, b) ==
    [k \in DOMAIN a \cup DOMAIN b |-> IF k \in DOMAIN a THEN a[k] ELSE b[k]]

Merge(a, b) ==
    [k \in DOMAIN a \cup DOMAIN b |-> IF k \in DOMAIN b THEN b[k] ELSE a[k]]

Entry(shape, english, native) ==
    [shape |-> shape, english |-> english, native |-> native]

\* Locale.getLanguages(source=...) with the default tupletype, given the
\* <<english_name, native_name>> the source's Locale objects carry.
GetLanguages(raw) ==
    [c \in {k \in DOMAIN raw : Truthy(raw[k][1]) \/ Truthy(raw[k][2])} |->
        Entry("tuple", raw[c][1],
              IF Truthy(raw[c][2]) THEN Title(raw[c][2]) ELSE raw[c][2])]

-----------------------------------------------------------------------------
(* The JSON data file *)

\* json.dump of one value: a tuple and a list both become an array, a dict
\* becomes an object; None becomes null, kept as None.
DumpEntryAsArray(e) ==
    [kind |-> "array", english |-> e.english, native |-> e.native]

DumpEntry(e) ==
    [kind |-> IF e.shape = "dict" THEN "object" ELSE "array",
     english |-> e.english, native |-> e.native]

\* json.dump(languages, fd, ..., sort_keys=True)
DumpObject(langs) == [k \in DOMAIN langs |-> DumpEntry(langs[k])]

\* json.load of one value: an array becomes a list, an object a dict.
ParseEntry(j) ==
    Entry(IF j.kind = "object" THEN "dict" ELSE "list", j.english, j.native)

ParseObjectIgnored(obj) == Empty

\* json.load(fd)
ParseObject(obj) == [k \in DOMAIN obj |-> ParseEntry(obj[k])]

Absent == [kind |-> "absent", obj |-> Empty, nl |-> FALSE]

\* Text that is no JSON document: a file just opened with 'w' (empty), or a
\* proper prefix of a document left by a write that raised.
Truncated == [kind |-> "truncated", obj |-> Empty, nl |-> FALSE]

JsonFile(obj, nl) == [kind |-> "json", obj |-> obj, nl |-> nl]

Array(english, native) == [kind |-> "array", english |-> english, native |-> native]
Object(english, native) == [kind |-> "object", english |-> english, native |-> native]

-----------------------------------------------------------------------------
(* The inputs of a run *)

\* What a registry can report for a code it lists.
RawChoices(source, code) ==
    CASE source = "icu" /\ code = "en" ->
            {<<n_English, n_english>>, <<EmptyStr, EmptyStr>>}
      [] source = "icu" /\ code = "fr" -> {<<n_French, n_francais>>}
      [] source = "babel" /\ code = "en" -> {<<n_English, n_englishUs>>}
      [] source = "babel" /\ code = "fr" -> {<<n_French, n_FRANCAIS>>}

Tables(source) ==
    UNION {{t \in [S -> UNION {RawChoices(source, c) : c \in S}] :
              \A c \in S : t[c] \in RawChoices(source, c)} : S \in SUBSET Codes}

\* The metadata of messages_<code>.po: complete, or lacking one field.
CatalogChoices(code) ==
    IF code = "en"
    THEN {[LanguageName |-> n_English, LanguageNativeName |-> n_English],
          [LanguageNativeName |-> n_English]}
    ELSE {[LanguageName |-> n_French, LanguageNativeName |-> n_francais],
          [LanguageName |-> n_French]}

CatalogSets ==
    UNION {{t \in [S -> UNION {CatalogChoices(c) : c \in S}] :
              \A c \in S : t[c] \in CatalogChoices(c)} : S \in SUBSET Codes}

\* What languages.dat can hold for a code before the first run.
FileChoices(code) ==
    IF code = "en"
    THEN {Array(n_English, n_English)}
    ELSE {Array(n_French, n_Francais), Array(n_French, n_francais),
          Object(n_French, None)}

FileObjects ==
    UNION {{t \in [S -> UNION {FileChoices(c) : c \in S}] :
              \A c \in S : t[c] \in FileChoices(c)} : S \in SUBSET Codes}

InitialFiles == {Absent, Truncated} \cup {JsonFile(o, TRUE) : o \in FileObjects}

NoPrev == [outcome |-> "none", file |-> Absent, saved |-> Empty]

Init ==
    /\ avail \in [Range(RegistrySources) -> BOOLEAN]
    /\ table \in [Range(RegistrySources) -> UNION {Tables(s) : s \in Range(RegistrySources)}]
    /\ \A s \in Range(RegistrySources) :
          table[s] \in (IF avail[s] THEN Tables(s) ELSE {Empty})
    /\ catalogs \in CatalogSets
    /\ file \in InitialFiles
    /\ run = 1
    /\ pc = "seed"
    /\ srcIdx = 1
    /\ languages = Empty
    /\ stderr = FALSE
    /\ stdout = ""
    /\ exitStatus = 0
    /\ consulted = << >>
    /\ seed = Empty
    /\ loaded = Empty
    /\ trans = Empty
    /\ fileAtStart = file
    /\ outcome = "running"
    /\ failedAt = "none"
    /\ prev = NoPrev

-----------------------------------------------------------------------------
(* The pofiles source *)

\* po.metadata[field] raises KeyError when the header lacks the field.
HasField(meta, field) == field \in DOMAIN meta

\* A plausible slip: po.metadata.get(field), which never raises.
PoRaisesNever(cats) == FALSE

\* Whether getLanguages(source='pofiles') raises: it builds a Locale for
\* every listed code, so one catalog lacking a field is enough.
PoRaises(cats) ==
    \E c \in DOMAIN cats :
        ~HasField(cats[c], "LanguageName") \/ ~HasField(cats[c], "LanguageNativeName")

Field(meta, field) == IF HasField(meta, field) THEN meta[field] ELSE None

\* english_name and native_name of the Locale of every listed catalog.
PoRaw(cats) ==
    [c \in DOMAIN cats |->
        <<Field(cats[c], "LanguageName"), Field(cats[c], "LanguageNativeName")>>]

-----------------------------------------------------------------------------
(* main() *)

\* The for loop over sources[:-1]: break after the first getLanguages that
\* returns, continue after an ImportError.
SeedNextNoBreak(i, ok) == i + 1

SeedNext(i, ok) == IF ok THEN Len(RegistrySources) + 1 ELSE i + 1

\* except ImportError: continue
ImportErrorRaised == "raise"

ImportErrorTarget == "seed"

\* except IOError: pass
MissingFileRaised == "raise"

MissingFileTarget == "pofiles"

TrySource ==
    /\ pc = "seed"
    /\ srcIdx <= Len(RegistrySources)
    /\ LET source == RegistrySources[srcIdx]
           ok     == avail[source]
           next   == SeedNext(srcIdx, ok)
           langs  == IF ok THEN GetLanguages(table[source]) ELSE languages
           target == IF ok THEN "seed" ELSE ImportErrorTarget
       IN /\ consulted' = Append(consulted, source)
          /\ languages' = langs
          /\ srcIdx' = next
          /\ pc' = IF target = "seed" /\ next > Len(RegistrySources)
                   THEN "load" ELSE target
          /\ seed' = IF target = "seed" /\ next > Len(RegistrySources)
                     THEN langs ELSE seed
          /\ outcome' = IF target = "raise" THEN "exception" ELSE outcome
    /\ UNCHANGED <<inputs, file, run, stderr, stdout, exitStatus, loaded, trans,
                   fileAtStart, failedAt, prev>>

\* languages.update(Locale.loadLanguagesData(datafile)): open() raises IOError
\* on a missing file, json.load raises ValueError on text that is no JSON.
\* A data file that exists is taken to be readable.
LoadPersisted ==
    /\ pc = "load"
    /\ CASE file.kind = "absent" ->
              /\ pc' = MissingFileTarget
              /\ outcome' = IF MissingFileTarget = "raise" THEN "exception" ELSE outcome
              /\ UNCHANGED <<languages, loaded>>
         [] file.kind = "truncated" ->
              /\ pc' = "raise"
              /\ outcome' = "exception"
              /\ UNCHANGED <<languages, loaded>>
         [] file.kind = "json" ->
              /\ loaded' = ParseObject(file.obj)
              /\ languages' = Merge(languages, loaded')
              /\ pc' = "pofiles"
              /\ UNCHANGED outcome
    /\ UNCHANGED <<inputs, file, run, srcIdx, stderr, stdout, exitStatus, consulted,
                   seed, trans, fileAtStart, failedAt, prev>>

\* languages.update(Locale.getLanguages(source=sources[-1]))
MergeTranslations ==
    /\ pc = "pofiles"
    /\ IF PoRaises(catalogs)
       THEN /\ pc' = "raise"
            /\ outcome' = "exception"
            /\ UNCHANGED <<languages, trans>>
       ELSE /\ trans' = GetLanguages(PoRaw(catalogs))
            /\ languages' = Merge(languages, trans')
            /\ pc' = "open"
            /\ UNCHANGED outcome
    /\ UNCHANGED <<inputs, file, run, srcIdx, stderr, stdout, exitStatus, consulted,
                   seed, loaded, fileAtStart, failedAt, prev>>

\* The except IOError clause of main: the message goes to stderr and main
\* returns None.
SaveFails(point, left) ==
    /\ file' = left
    /\ stderr' = TRUE
    /\ failedAt' = point
    /\ outcome' = "write_failed"
    /\ pc' = "return"
    /\ UNCHANGED stdout

\* with open(filename, 'w') as fd: raises IOError leaving the file alone, or
\* creates the file, or cuts it to zero length.
SaveOpen ==
    /\ pc = "open"
    /\ \/ SaveFails("open", file)
       \/ /\ file' = Truncated
          /\ pc' = "dump"
          /\ UNCHANGED <<stderr, stdout, failedAt, outcome>>
    /\ UNCHANGED <<inputs, run, srcIdx, languages, exitStatus, consulted, seed,
                   loaded, trans, fileAtStart, prev>>

\* json.dump(languages, fd, indent=0, separators=(',', ': '), sort_keys=True)
SaveDump ==
    /\ pc = "dump"
    /\ \/ SaveFails("dump", Truncated)
       \/ /\ file' = JsonFile(DumpObject(languages), FALSE)
          /\ pc' = "newline"
          /\ UNCHANGED <<stderr, stdout, failedAt, outcome>>
    /\ UNCHANGED <<inputs, run, srcIdx, languages, exitStatus, consulted, seed,
                   loaded, trans, fileAtStart, prev>>

\* fd.write('\n'), the close of the file, and the summary line. A write that
\* raises leaves whatever reached the disk: the whole document or a prefix.
SaveNewline ==
    /\ pc = "newline"
    /\ \/ \E left \in {file, Truncated} : SaveFails("newline", left)
       \/ /\ file' = JsonFile(file.obj, TRUE)
          /\ stdout' = "summary"
          /\ outcome' = "saved"
          /\ pc' = "return"
          /\ UNCHANGED <<stderr, failedAt>>
    /\ UNCHANGED <<inputs, run, srcIdx, languages, exitStatus, consulted, seed,
                   loaded, trans, fileAtStart, prev>>

\* sys.exit(main(sys.argv[1:])): main returned None, so the status is 0.
ExitReturn ==
    /\ pc = "return"
    /\ exitStatus' = 0
    /\ pc' = "exited"
    /\ UNCHANGED <<inputs, file, run, srcIdx, languages, stderr, stdout, consulted,
                   seed, loaded, trans, fileAtStart, outcome, failedAt, prev>>

\* except Exception as e: print e; sys.exit(1)
ExitException ==
    /\ pc = "raise"
    /\ stdout' = "exception"
    /\ exitStatus' = 1
    /\ pc' = "exited"
    /\ UNCHANGED <<inputs, file, run, srcIdx, languages, stderr, consulted,
                   seed, loaded, trans, fileAtStart, outcome, failedAt, prev>>

\* The script is invoked again, with the same registries and catalogs, on
\* the data file the previous invocation left.
NextRun ==
    /\ pc = "exited"
    /\ run < MaxRuns
    /\ run' = run + 1
    /\ prev' = [outcome |-> outcome, file |-> file, saved |-> languages]
    /\ pc' = "seed"
    /\ srcIdx' = 1
    /\ languages' = Empty
    /\ stderr' = FALSE
    /\ stdout' = ""
    /\ exitStatus' = 0
    /\ consulted' = << >>
    /\ seed' = Empty
    /\ loaded' = Empty
    /\ trans' = Empty
    /\ fileAtStart' = file
    /\ outcome' = "running"
    /\ failedAt' = "none"
    /\ UNCHANGED <<inputs, file>>

Next ==
    \/ TrySource
    \/ LoadPersisted
    \/ MergeTranslations
    \/ SaveOpen
    \/ SaveDump
    \/ SaveNewline
    \/ ExitReturn
    \/ ExitException
    \/ NextRun

Spec == Init /\ [][Next]_vars

-----------------------------------------------------------------------------
(* Vocabulary of the properties, stated from the inputs of the run *)

\* b's entry where b has the key, a's entry elsewhere.
OverwriteByKey(a, b) ==
    [k \in DOMAIN a \cup DOMAIN b |-> IF k \in DOMAIN b THEN b[k] ELSE a[k]]

\* The registry seed: the output of the first registry that can be imported.
RegistrySeed ==
    IF avail["icu"] THEN GetLanguages(table["icu"])
    ELSE IF avail["babel"] THEN GetLanguages(table["babel"])
    ELSE Empty

\* The persisted data: what the data file held when the run began.
PersistedData ==
    IF fileAtStart.kind = "json"
    THEN [k \in DOMAIN fileAtStart.obj |->
            Entry(IF fileAtStart.obj[k].kind = "array" THEN "list" ELSE "dict",
                  fileAtStart.obj[k].english, fileAtStart.obj[k].native)]
    ELSE Empty

AllFields == {"LanguageName", "LanguageNativeName"}

CatalogMalformed == \E c \in DOMAIN catalogs : DOMAIN catalogs[c] # AllFields

\* The translation-file data: one tuple per catalog that names its language.
TranslationData ==
    [c \in {k \in DOMAIN catalogs :
               /\ DOMAIN catalogs[k] = AllFields
               /\ \E f \in AllFields : Truthy(catalogs[k][f])} |->
        Entry("tuple", catalogs[c].LanguageName,
              IF Truthy(catalogs[c].LanguageNativeName)
              THEN Title(catalogs[c].LanguageNativeName)
              ELSE catalogs[c].LanguageNativeName)]

AsJson(e) ==
    IF e.shape = "dict" THEN Object(e.english, e.native) ELSE Array(e.english, e.native)

\* Every cased character is upper case exactly when no cased character
\* comes right before it.
IsTitleCased(name) ==
    \A i \in 1..Len(name) :
        IsCased(name[i]) =>
            IF i > 1 /\ IsCased(name[i - 1]) THEN IsLower(name[i]) ELSE IsUpper(name[i])

NoRegistry == \A s \in Range(RegistrySources) : ~avail[s]

BadPersistedFile == fileAtStart.kind = "truncated"

-----------------------------------------------------------------------------
(* Properties *)

ExampleRegistry == "en" :> <<n_English, n_english>>
ExampleFile == JsonFile(("en" :> Array(n_English, n_English))
                        @@ ("fr" :> Array(n_French, n_Francais)), TRUE)
ExampleCatalogs == "en" :> [LanguageName |-> n_English, LanguageNativeName |-> n_English]

InExample ==
    /\ avail["icu"]
    /\ table["icu"] = ExampleRegistry
    /\ fileAtStart = ExampleFile
    /\ catalogs = ExampleCatalogs

\* C1: the data saved by main() has, for every locale code, the translation
\* files' entry when they define the code, otherwise the persisted file's
\* entry when it defines the code, otherwise the registry seed's entry, and
\* no other keys; the data file holds its JSON form. For the registry
\* {en: (English, english)}, the file {en: [English, English], fr: [French,
\* Français]} and the translations {en: [English, English]} the saved file
\* is {en: [English, English], fr: [French, Français]}.
C1_Precedence ==
    outcome = "saved" =>
        /\ DOMAIN languages =
              DOMAIN TranslationData \cup DOMAIN PersistedData \cup DOMAIN RegistrySeed
        /\ \A k \in DOMAIN languages :
              languages[k] = IF k \in DOMAIN TranslationData THEN TranslationData[k]
                             ELSE IF k \in DOMAIN PersistedData THEN PersistedData[k]
                             ELSE RegistrySeed[k]
        /\ file.kind = "json"
        /\ DOMAIN file.obj = DOMAIN languages
        /\ \A k \in DOMAIN languages : file.obj[k] = AsJson(languages[k])
        /\ InExample => file = ExampleFile

\* The example's run has saved, with a key all three origins define and a
\* key only the persisted file defines.
C1_Witness ==
    /\ InExample
    /\ outcome = "saved"
    /\ pc = "exited"
    /\ DOMAIN RegistrySeed = {"en"}
    /\ DOMAIN languages = {"en", "fr"}

\* C2: whenever the save step raises an I/O error the run reports a
\* diagnostic and the process ends with a non-zero exit status; the exit
\* status is zero only for runs in which the file was written.
C2_WriteFailureExitsNonZero ==
    pc = "exited" =>
        /\ outcome = "write_failed" => stderr /\ exitStatus # 0
        /\ exitStatus = 0 => outcome = "saved"

\* C3: in every run whose save step fails, the data file after the run is
\* identical to the data file before the run, whichever point of
\* saveLanguagesData failed.
C3_FailedSaveLeavesFile ==
    outcome = "write_failed" => file = fileAtStart

\* C4: the working set is seeded from exactly one registry: icu is tried
\* first, then babel, never pofiles; the seed is the output of the first
\* one that is available, even when that output is empty, no later registry
\* is consulted after it, and the seed is empty when none is available.
C4_FirstAvailableSeed ==
    /\ \A i \in 1..Len(consulted) : consulted[i] = RegistrySources[i]
    /\ \A i \in 1..Len(consulted) : consulted[i] # "pofiles"
    /\ pc # "seed" =>
          /\ seed = RegistrySeed
          /\ avail["icu"] => consulted = <<"icu">>
          /\ ~avail["icu"] => consulted = <<"icu", "babel">>
          /\ NoRegistry => seed = Empty
    /\ pc = "load" => languages = seed

\* icu is available and lists nothing usable, babel is available and lists
\* languages: the seed is icu's empty output.
C4_Witness ==
    /\ pc = "load"
    /\ avail["icu"] /\ avail["babel"]
    /\ GetLanguages(table["icu"]) = Empty
    /\ GetLanguages(table["babel"]) # Empty
    /\ seed = Empty
    /\ consulted = <<"icu">>

\* C5: every entry of the saved data with a non-empty native name has that
\* name in title-cased form, whichever origin the entry came from.
C5_SavedNativeTitleCased ==
    outcome = "saved" =>
        \A k \in DOMAIN file.obj :
            Truthy(file.obj[k].native) => IsTitleCased(file.obj[k].native)

FromSavedFile ==
    /\ run > 1
    /\ prev.outcome = "saved"
    /\ pc = "pofiles"

C7_NoRegistryStillSaves ==
    NoRegistry =>
        /\ pc # "seed" => seed = Empty
        /\ outcome = "exception" => BadPersistedFile \/ CatalogMalformed
        /\ outcome = "saved" =>
              /\ languages = OverwriteByKey(PersistedData, TranslationData)
              /\ file = JsonFile([k \in DOMAIN languages |-> AsJson(languages[k])], TRUE)
        /\ (pc = "exited" /\ outcome # "write_failed"
              /\ ~BadPersistedFile /\ ~CatalogMalformed) =>
              outcome = "saved" /\ exitStatus = 0

C7_Witness ==
    /\ NoRegistry
    /\ pc = "exited"
    /\ outcome = "saved"
    /\ exitStatus = 0
    /\ DOMAIN PersistedData = {"en", "fr"}
    /\ DOMAIN TranslationData = {"fr"}
    /\ consulted = <<"icu", "babel">>

\* C8: when the data file is absent at the start of a run the load step
\* yields nothing and is no error: the run completes, creates the data file
\* (unless a catalog is malformed or the write fails), and the saved data is
\* the registry seed overwritten by key with the translation-file entries.
C8_MissingFileIsEmpty ==
    fileAtStart.kind = "absent" =>
        /\ loaded = Empty
        /\ outcome = "exception" => CatalogMalformed
        /\ outcome = "saved" =>
              /\ languages = OverwriteByKey(RegistrySeed, TranslationData)
              /\ file = JsonFile([k \in DOMAIN languages |-> AsJson(languages[k])], TRUE)
        /\ (pc = "exited" /\ outcome # "write_failed" /\ ~CatalogMalformed) =>
              outcome = "saved" /\ exitStatus = 0 /\ file.kind = "json"

C8_Witness ==
    /\ fileAtStart.kind = "absent"
    /\ pc = "exited"
    /\ outcome = "saved"
    /\ file.kind = "json"
    /\ DOMAIN RegistrySeed = {"en", "fr"}
    /\ DOMAIN TranslationData = {"en"}

\* C9: when a catalog the pofiles source lists lacks Language-Name or
\* Language-Native-Name the run is fatal: the exit status is non-zero, the
\* save step is never reached, and the data file keeps its contents.
C9_MalformedCatalogFatal ==
    CatalogMalformed =>
        /\ pc \notin {"open", "dump", "newline", "return"}
        /\ outcome \notin {"saved", "write_failed"}
        /\ file = fileAtStart
        /\ pc = "exited" => exitStatus # 0 /\ outcome = "exception"

\* The persisted file was loaded and the catalogs then ended the run.
C9_Witness ==
    /\ CatalogMalformed
    /\ pc = "exited"
    /\ exitStatus = 1
    /\ fileAtStart.kind = "json"
    /\ loaded # Empty
    /\ \E c \in DOMAIN catalogs : DOMAIN catalogs[c] = AllFields

\* C10: a run that saves right after a run that saved, with the same
\* registries and catalogs, writes the same data file; and every locale
\* code in the file before a run that saves is in the file after it.
C10_Idempotent ==
    outcome = "saved" =>
        /\ (run > 1 /\ prev.outcome = "saved") => file = prev.file
        /\ fileAtStart.kind = "json" => DOMAIN fileAtStart.obj \subseteq DOMAIN file.obj

\* The second of two saving runs has saved; the first began with a file
\* whose codes the registries and catalogs do not all define.
C10_Witness ==
    /\ run > 1
    /\ prev.outcome = "saved"
    /\ outcome = "saved"
    /\ pc = "exited"
    /\ \E k \in DOMAIN file.obj : k \notin DOMAIN RegistrySeed \cup DOMAIN TranslationData
    /\ DOMAIN TranslationData # {}
    /\ DOMAIN RegistrySeed # {}

====
